---- MODULE Spec2Model ----
(***************************************************************************)
(* Model of the live document synchronisation core of wdom:                *)
(*   src/wdom/server/__init__.py   message queue, message loop, start/stop *)
(*   src/wdom/server_tornado.py    WSHandler (open / on_message /          *)
(*                                 on_close / terminate)                   *)
(* All handlers run on one event loop, so every handler and every          *)
(* iteration of the message loop between two suspension points is one      *)
(* atomic action.                                                          *)
(***************************************************************************)
EXTENDS Integers, Sequences, FiniteSets, TLC

\* ---------------------------------------------------------------- bounds
MaxConns == 2       \* WSHandler objects created over a run
MaxMsgs == 2        \* calls of push_message over a run
MaxStarts == 1      \* calls of start_server over a run
MaxTimers == 2      \* terminate() coroutines pending at once
MaxRepeatCloses == 1  \* calls of on_close on a handler already closed, over a run
MaxRegistrations == 3  \* entries of the connection list when open is called on a registered handler
MaxFrames == 2      \* calls of on_message over a run
MaxElems == 2       \* elements of the document tree
MaxReqs == 2        \* requests issued to the client over a run
MaxCycles == 1      \* calls of start_server made after a stop_server, over a run

Conns == 1..MaxConns
Elements == 1..MaxElems
ReqIds == 1..MaxReqs
Values == {"a", "b"}

\* An inbound frame: its form (text that is not JSON, JSON that is not an
\* object, an object) and the fields the handlers read.
Frame(fm, t, e, r, v) ==
    [form |-> fm, type |-> t, target |-> e, reqid |-> r, value |-> v]

\* Inbound frames; a field a frame of that type does not carry is fixed.
Frames ==
    {Frame(fm, "none", 1, 1, "a") : fm \in {"garbage", "array"}}
    \cup {Frame("object", t, 1, 1, "a") : t \in {"log", "none", "other"}}
    \cup {Frame("object", "event", e, 1, "a") : e \in Elements}
    \cup {Frame("object", "response", 1, r, v) : r \in ReqIds, v \in Values}

VARIABLES
    auto_shutdown,    \* config.auto_shutdown
    connections,      \* doc.connections / module.connections: list of handlers
    msg_queue,        \* _msg_queue
    app_server,       \* _server / app.server: handle of the last started server, 0 = None
    listening,        \* server handles whose sockets accept connections
    loops,            \* _message_loop tasks that are alive
    crashed,          \* _message_loop tasks ended by an exception
    timers,           \* pending terminate() coroutines, in arming order
    io_loop_stopped,  \* io_loop.stop() has been called
    stop_calls,       \* invocations of server.stop()
    policy_stops,     \* history: invocations of server.stop() made by terminate
    hstate,           \* per handler: "new", "open", "gone" (peer gone, on_close not yet run), "closed"
    repeat_closes,    \* history: calls of on_close on a handler that was closed before
    pushed,           \* history: number of push_message calls; message i is the i-th pushed
    flushed,          \* history: the batches json.dumps produced, in flush order
    received,         \* per handler: the frames write_message delivered, in order
    write_failed,     \* history: handlers on which a write_message call has raised
    empty_sends,      \* history: some send_message call found the queue empty while a handler was registered
    elements,         \* elements in the document tree; each has one listener for the event type
    pending,          \* pending-request table: ids of the requests awaiting a response
    resolved,         \* history: <<request id, value>> of the futures resolved
    listener_calls,   \* history: per element, calls of its event listener
    logged,           \* history: records forwarded to the logging sink
    inbound,          \* history: number of on_message calls
    last_outcome      \* history: what the last on_message call ended in

vars == <<auto_shutdown, connections, msg_queue, app_server, listening, loops,
          crashed, timers, io_loop_stopped, stop_calls, policy_stops, hstate,
          repeat_closes, pushed, flushed, received, write_failed,
          empty_sends, elements, pending, resolved, listener_calls, logged, inbound,
          last_outcome>>

\* The state the inbound handlers work on.
router_vars == <<elements, pending, resolved, listener_calls, logged, inbound,
                 last_outcome>>

\* ------------------------------------------------------- pure functions

\* Tokens of a JSON text.  A message dict is opaque to the server; it is
\* identified by the position at which it was pushed.
Tok(t, i) == [tok |-> t, id |-> i]

RECURSIVE JoinItems(_)
JoinItems(q) ==
    IF Len(q) = 0 THEN <<>>
    ELSE IF Len(q) = 1 THEN <<Tok("msg", q[1])>>
    ELSE <<Tok("msg", q[1]), Tok(",", 0)>> \o JoinItems(Tail(q))

\* json.dumps(list): "[" item "," item ... "]"
json_dumps(q) == <<Tok("[", 0)>> \o JoinItems(q) \o <<Tok("]", 0)>>

\* The client's JSON.parse of a frame: the items of the array, in order.
RECURSIVE json_loads(_)
json_loads(text) ==
    IF Len(text) = 0 THEN <<>>
    ELSE IF Head(text).tok = "msg"
         THEN <<Head(text).id>> \o json_loads(Tail(text))
         ELSE json_loads(Tail(text))

\* any(doc.connections): handler objects are truthy.
any_connections(conns) == \E i \in 1..Len(conns) : TRUE

\* is_connected(): whether the connection set is non-empty.
is_connected == any_connections(connections)

\* x in list
Contains(conns, c) == \E i \in 1..Len(conns) : conns[i] = c

\* list.remove(x): removes the first occurrence.
RECURSIVE list_remove(_, _)
list_remove(conns, c) ==
    IF Len(conns) = 0 THEN <<>>
    ELSE IF Head(conns) = c THEN Tail(conns)
    ELSE <<Head(conns)>> \o list_remove(Tail(conns), c)

\* get_document().connections.append(self)
register(conns, c) == Append(conns, c)

\* Variant of unregister that leaves the handler in the list.
unregister_skip(conns, c) == conns

\* if self in doc.connections: doc.connections.remove(self)
unregister(conns, c) ==
    IF Contains(conns, c) THEN list_remove(conns, c) ELSE conns

\* Variant of should_arm that does not read config.auto_shutdown.
should_arm_always(auto, conns) == ~any_connections(conns)

\* if config.auto_shutdown and not any(doc.connections): arm terminate()
should_arm(auto, conns) == auto /\ ~any_connections(conns)

\* Variant of should_stop with the re-check inverted: if any(...).
should_stop_inverted(conns) == any_connections(conns)

\* if not any(get_document().connections): stop the server
should_stop(conns) == ~any_connections(conns)

\* Variant of enqueue that inserts at the front: _msg_queue.insert(0, msg).
enqueue_front(queue, m) == <<m>> \o queue

\* _msg_queue.append(msg)
enqueue(queue, m) == Append(queue, m)

\* conn.write_message(msg) raises WebSocketClosedError when the peer is gone.
write_fails(hs, c) == hs[c] # "open"

\* for conn in module.connections: conn.write_message(msg)
\* The first write that raises ends the loop; the result carries the frames
\* delivered so far and the handler whose write raised.
RECURSIVE write_all(_, _, _, _)
write_all(conns, msg, rcv, hs) ==
    IF Len(conns) = 0 THEN [rcv |-> rcv, raised |-> FALSE, failed |-> {}]
    ELSE IF write_fails(hs, Head(conns))
         THEN [rcv |-> rcv, raised |-> TRUE, failed |-> {Head(conns)}]
    ELSE write_all(Tail(conns), msg,
                   [rcv EXCEPT ![Head(conns)] = Append(@, msg)], hs)

\* Variant of send_message without _msg_queue.clear().
send_message_noclear(queue, conns, rcv, hs) ==
    IF Len(queue) = 0
    THEN [queue |-> queue, rcv |-> rcv, batch |-> <<>>, outcome |-> "empty",
          failed |-> {}]
    ELSE LET msg == json_dumps(queue)
             w == write_all(conns, msg, rcv, hs)
         IN [queue |-> queue, rcv |-> w.rcv, batch |-> <<msg>>,
             outcome |-> IF w.raised THEN "raised" ELSE "sent",
             failed |-> w.failed]

\* Variant of send_message without the early return on an empty queue.
send_message_noreturn(queue, conns, rcv, hs) ==
    LET msg == json_dumps(queue)
        w == write_all(conns, msg, rcv, hs)
    IN [queue |-> <<>>, rcv |-> w.rcv, batch |-> <<msg>>,
        outcome |-> IF w.raised THEN "raised" ELSE "sent",
        failed |-> w.failed]

\* Variant of send_message that clears the queue only when a handler is
\* registered, so that a batch nobody was written keeps its messages queued.
send_message_hold(queue, conns, rcv, hs) ==
    IF Len(queue) = 0
    THEN [queue |-> queue, rcv |-> rcv, batch |-> <<>>, outcome |-> "empty",
          failed |-> {}]
    ELSE LET msg == json_dumps(queue)
             w == write_all(conns, msg, rcv, hs)
         IN [queue |-> IF Len(conns) = 0 THEN queue ELSE <<>>, rcv |-> w.rcv,
             batch |-> <<msg>>,
             outcome |-> IF w.raised THEN "raised" ELSE "sent",
             failed |-> w.failed]

\* Variant of send_message that clears the queue after the writes, so that
\* the clear is skipped when a write raises.
send_message_clear_after(queue, conns, rcv, hs) ==
    IF Len(queue) = 0
    THEN [queue |-> queue, rcv |-> rcv, batch |-> <<>>, outcome |-> "empty",
          failed |-> {}]
    ELSE LET msg == json_dumps(queue)
             w == write_all(conns, msg, rcv, hs)
         IN [queue |-> IF w.raised THEN queue ELSE <<>>, rcv |-> w.rcv,
             batch |-> <<msg>>,
             outcome |-> IF w.raised THEN "raised" ELSE "sent",
             failed |-> w.failed]

\* send_message(): the state it leaves and whether it raised.
send_message(queue, conns, rcv, hs) ==
    IF Len(queue) = 0
    THEN [queue |-> queue, rcv |-> rcv, batch |-> <<>>, outcome |-> "empty",
          failed |-> {}]
    ELSE LET msg == json_dumps(queue)
             w == write_all(conns, msg, rcv, hs)
         IN [queue |-> <<>>, rcv |-> w.rcv, batch |-> <<msg>>,
             outcome |-> IF w.raised THEN "raised" ELSE "sent",
             failed |-> w.failed]

\* ---------------------------------------------------------------- Init
Init ==
    /\ auto_shutdown \in BOOLEAN
    /\ connections = <<>>
    /\ msg_queue = <<>>
    /\ app_server = 0
    /\ listening = {}
    /\ loops = 0
    /\ crashed = 0
    /\ timers = <<>>
    /\ io_loop_stopped = FALSE
    /\ stop_calls = 0
    /\ policy_stops = 0
    /\ hstate = [c \in Conns |-> "new"]
    /\ repeat_closes = 0
    /\ pushed = 0
    /\ flushed = <<>>
    /\ received = [c \in Conns |-> <<>>]
    /\ write_failed = {}
    /\ empty_sends = FALSE
    /\ elements = Elements
    /\ pending = {}
    /\ resolved = {}
    /\ listener_calls = [e \in Elements |-> 0]
    /\ logged = 0
    /\ inbound = 0
    /\ last_outcome = "none"

\* -------------------------------------------------------------- actions

\* push_message(msg)
push_message ==
    /\ ~io_loop_stopped
    /\ pushed < MaxMsgs
    /\ msg_queue' = enqueue(msg_queue, pushed + 1)
    /\ pushed' = pushed + 1
    /\ UNCHANGED <<router_vars, write_failed, auto_shutdown, connections, app_server, listening, loops,
                   crashed, timers, io_loop_stopped, stop_calls, policy_stops,
                   hstate, repeat_closes, flushed, received, empty_sends>>

\* One iteration of a _message_loop task: send_message(), then sleep.  An
\* exception raised by send_message ends the task.
message_loop ==
    /\ ~io_loop_stopped
    /\ loops > 0
    /\ LET r == send_message(msg_queue, connections, received, hstate)
       IN /\ msg_queue' = r.queue
          /\ received' = r.rcv
          /\ flushed' = flushed \o r.batch
          /\ write_failed' = write_failed \cup r.failed
          /\ empty_sends' = (empty_sends \/
                              (r.outcome = "empty" /\ Len(connections) > 0))
          /\ loops' = IF r.outcome = "raised" THEN loops - 1 ELSE loops
          /\ crashed' = IF r.outcome = "raised" THEN crashed + 1 ELSE crashed
    /\ UNCHANGED <<router_vars, auto_shutdown, connections, app_server,
                   listening, timers, io_loop_stopped, stop_calls,
                   policy_stops, hstate, repeat_closes, pushed>>

\* start_server(): module.start_server listens and becomes _server / app.server,
\* then a further _message_loop task is started.
start_server_body ==
    /\ app_server' = app_server + 1
    /\ listening' = listening \cup {app_server + 1}
    /\ loops' = loops + 1
    /\ UNCHANGED <<router_vars, write_failed, auto_shutdown, connections, msg_queue, crashed, timers,
                   io_loop_stopped, stop_calls, policy_stops, hstate,
                   repeat_closes, pushed, flushed, received, empty_sends>>

\* start_server() called by the application.
start_server ==
    /\ ~io_loop_stopped
    /\ app_server < MaxStarts
    /\ start_server_body

\* start_server() called again after stop_server stopped the server that was
\* started before: the cycle of setUp and tearDown.
start_server_again ==
    /\ ~io_loop_stopped
    /\ app_server >= MaxStarts
    /\ app_server < MaxStarts + MaxCycles
    /\ app_server \notin listening
    /\ start_server_body

\* module.stop_server(server): server.stop()
module_stop_server(s) ==
    /\ listening' = listening \ {s}
    /\ stop_calls' = stop_calls + 1

\* stop_server(server=None): stops the given handle, or _server.
stop_server(s) ==
    /\ ~io_loop_stopped
    /\ s \in listening
    /\ module_stop_server(s)
    /\ UNCHANGED <<router_vars, write_failed, auto_shutdown, connections, msg_queue, app_server, loops,
                   crashed, timers, io_loop_stopped, policy_stops, hstate,
                   repeat_closes, pushed, flushed, received, empty_sends>>

\* The body of WSHandler.open.
open_body(c) ==
    /\ connections' = register(connections, c)
    /\ hstate' = [hstate EXCEPT ![c] = "open"]
    /\ timers' = [i \in 1..Len(timers) |-> [timers[i] EXCEPT !.saw_open = TRUE]]
    /\ UNCHANGED <<router_vars, write_failed, auto_shutdown, msg_queue, app_server, listening, loops,
                   crashed, io_loop_stopped, stop_calls, policy_stops,
                   repeat_closes, pushed, flushed, received, empty_sends>>

\* WSHandler.open, called once for every new handler object when its socket
\* is upgraded.  Handlers are numbered in the order in which they are created.
open(c) ==
    /\ ~io_loop_stopped
    /\ listening # {}
    /\ hstate[c] = "new"
    /\ \A d \in Conns : d < c => hstate[d] # "new"
    /\ open_body(c)

\* WSHandler.open called on a handler that is registered already.
open_again(c) ==
    /\ ~io_loop_stopped
    /\ hstate[c] = "open"
    /\ Contains(connections, c)
    /\ Len(connections) < MaxRegistrations
    /\ open_body(c)

\* The peer of an open connection goes away; on_close has not run yet.
peer_gone(c) ==
    /\ ~io_loop_stopped
    /\ hstate[c] = "open"
    /\ hstate' = [hstate EXCEPT ![c] = "gone"]
    /\ UNCHANGED <<router_vars, write_failed, auto_shutdown, connections, msg_queue, app_server, listening,
                   loops, crashed, timers, io_loop_stopped, stop_calls,
                   policy_stops, repeat_closes, pushed, flushed, received,
                   empty_sends>>

\* WSHandler.on_close
on_close(c) ==
    /\ ~io_loop_stopped
    /\ hstate[c] # "new"
    /\ hstate[c] = "closed" => repeat_closes < MaxRepeatCloses
    /\ LET conns1 == unregister(connections, c)
           arm == should_arm(auto_shutdown, conns1)
       IN /\ connections' = conns1
          /\ arm => Len(timers) < MaxTimers
          /\ timers' = IF arm
                       THEN Append(timers, [self |-> c, saw_open |-> FALSE])
                       ELSE timers
    /\ hstate' = [hstate EXCEPT ![c] = "closed"]
    /\ repeat_closes' = IF hstate[c] = "closed" THEN repeat_closes + 1 ELSE repeat_closes
    /\ UNCHANGED <<router_vars, write_failed, auto_shutdown, msg_queue, app_server, listening, loops,
                   crashed, io_loop_stopped, stop_calls, policy_stops, pushed,
                   flushed, received, empty_sends>>

\* WSHandler.terminate after its sleep(config.shutdown_wait): the coroutines
\* wake in arming order, all having the same delay.  A coroutine that was
\* already due may still run in the loop iteration in which io_loop.stop()
\* was called.
terminate ==
    /\ Len(timers) > 0
    /\ timers' = Tail(timers)
    /\ IF should_stop(connections)
       THEN /\ module_stop_server(app_server)
            /\ policy_stops' = policy_stops + 1
            /\ io_loop_stopped' = TRUE
       ELSE UNCHANGED <<listening, stop_calls, policy_stops, io_loop_stopped>>
    /\ UNCHANGED <<router_vars, write_failed, auto_shutdown, connections, msg_queue, app_server, loops,
                   crashed, hstate, repeat_closes, pushed, flushed, received,
                   empty_sends>>

\* ------------------------------------------------------- inbound router

\* json.loads(message) raises ValueError on text that is not JSON.
loads_raises(f) == f.form = "garbage"

\* msg.get('type') raises AttributeError when msg is not a dict.
get_raises(f) == f.form # "object"

\* Variants of the chain with one branch altered.
dispatch_event_dropped(t) ==
    IF t = "log" THEN "log_handler"
    ELSE IF t = "response" THEN "response_handler"
    ELSE "dropped"

dispatch_response_dropped(t) ==
    IF t = "log" THEN "log_handler"
    ELSE IF t = "event" THEN "event_handler"
    ELSE "dropped"

dispatch_swapped(t) ==
    IF t = "log" THEN "log_handler"
    ELSE IF t = "event" THEN "response_handler"
    ELSE IF t = "response" THEN "event_handler"
    ELSE "dropped"

dispatch_log_as_event(t) ==
    IF t \in {"log", "event"} THEN "event_handler"
    ELSE IF t = "response" THEN "response_handler"
    ELSE "dropped"

\* The if / elif chain of on_message on _type: the handler that is called.
dispatch(t) ==
    IF t = "log" THEN "log_handler"
    ELSE IF t = "event" THEN "event_handler"
    ELSE IF t = "response" THEN "response_handler"
    ELSE "dropped"

\* event_handler(msg, doc): the listener of the target element is invoked if
\* the element is in the tree.
event_handler(f, elems, calls) ==
    IF f.target \in elems THEN [calls EXCEPT ![f.target] = @ + 1] ELSE calls

\* response_handler(msg, doc): the pending request with the id of the
\* response is resolved with its value and leaves the table.
response_handler(f, pend, res) ==
    IF f.reqid \in pend
    THEN [pending |-> pend \ {f.reqid}, resolved |-> res \cup {<<f.reqid, f.value>>}]
    ELSE [pending |-> pend, resolved |-> res]

\* WSHandler.on_message.  An exception leaves the handler uncaught; whether
\* the framework then keeps or aborts the connection is not decided here.
on_message(c, f) ==
    /\ ~io_loop_stopped
    /\ hstate[c] = "open"
    /\ Contains(connections, c)
    /\ inbound < MaxFrames
    /\ inbound' = inbound + 1
    /\ IF loads_raises(f) \/ get_raises(f)
       THEN /\ last_outcome' = "raised"
            /\ \E abort \in BOOLEAN :
                  hstate' = IF abort THEN [hstate EXCEPT ![c] = "gone"]
                            ELSE hstate
            /\ UNCHANGED <<elements, pending, resolved, listener_calls, logged>>
       ELSE LET h == dispatch(f.type)
                r == response_handler(f, pending, resolved)
            IN /\ last_outcome' = h
               /\ logged' = IF h = "log_handler" THEN logged + 1 ELSE logged
               /\ listener_calls' =
                     IF h = "event_handler"
                     THEN event_handler(f, elements, listener_calls)
                     ELSE listener_calls
               /\ pending' = IF h = "response_handler" THEN r.pending ELSE pending
               /\ resolved' = IF h = "response_handler" THEN r.resolved ELSE resolved
               /\ UNCHANGED <<elements, hstate>>
    /\ UNCHANGED <<write_failed, auto_shutdown, connections, msg_queue, app_server, listening,
                   loops, crashed, timers, io_loop_stopped, stop_calls,
                   policy_stops, repeat_closes, pushed, flushed, received,
                   empty_sends>>

\* The application removes an element from the tree.
remove_element(e) ==
    /\ ~io_loop_stopped
    /\ e \in elements
    /\ elements' = elements \ {e}
    /\ UNCHANGED <<pending, resolved, listener_calls, logged, inbound,
                   last_outcome>>
    /\ UNCHANGED <<write_failed, auto_shutdown, connections, msg_queue, app_server, listening,
                   loops, crashed, timers, io_loop_stopped, stop_calls,
                   policy_stops, hstate, repeat_closes, pushed, flushed,
                   received, empty_sends>>

\* Ids of the requests issued so far.
Issued == pending \cup {p[1] : p \in resolved}

\* The application issues a request to the client: a future enters the
\* pending table and the request is pushed on the message queue.
js_query(r) ==
    /\ ~io_loop_stopped
    /\ r \notin Issued
    /\ \A q \in ReqIds : q < r => q \in Issued
    /\ pushed < MaxMsgs
    /\ pending' = pending \cup {r}
    /\ msg_queue' = enqueue(msg_queue, pushed + 1)
    /\ pushed' = pushed + 1
    /\ UNCHANGED <<elements, resolved, listener_calls, logged, inbound,
                   last_outcome>>
    /\ UNCHANGED <<write_failed, auto_shutdown, connections, app_server, listening, loops,
                   crashed, timers, io_loop_stopped, stop_calls, policy_stops,
                   hstate, repeat_closes, flushed, received, empty_sends>>

Next ==
    \/ push_message
    \/ message_loop
    \/ start_server
    \/ \E s \in 1..MaxStarts : stop_server(s)
    \/ \E c \in Conns : open(c)
    \/ \E c \in Conns : peer_gone(c)
    \/ \E c \in Conns : on_close(c)
    \/ terminate

Spec == Init /\ [][Next]_vars

\* The program driven with a handler registered more than once.
NextReopen ==
    \/ Next
    \/ \E c \in Conns : open_again(c)

ReopenSpec == Init /\ [][NextReopen]_vars

\* The program driven through cycles of start_server and stop_server, with
\* config.auto_shutdown off.
NextCycles ==
    \/ push_message
    \/ message_loop
    \/ start_server
    \/ start_server_again
    \/ \E s \in 1..(MaxStarts + MaxCycles) : stop_server(s)
    \/ \E c \in Conns : open(c)
    \/ \E c \in Conns : peer_gone(c)
    \/ \E c \in Conns : on_close(c)

\* The state after construction with config.auto_shutdown off.
InitCycles == Init /\ ~auto_shutdown

CyclesSpec == InitCycles /\ [][NextCycles]_vars

\* The inbound side: connections open and frames arrive while the
\* application issues requests and removes elements.
NextRouter ==
    \/ start_server
    \/ \E c \in Conns : open(c)
    \/ \E c \in Conns, f \in Frames : on_message(c, f)
    \/ \E e \in Elements : remove_element(e)
    \/ \E r \in ReqIds : js_query(r)

RouterSpec == Init /\ [][NextRouter]_vars

\* The event loop resumes a sleeping _message_loop task when its sleep is over.
FairSpec == Spec /\ WF_vars(message_loop)

\* ------------------------------------------------------------ properties

\* The messages of a sequence of frames, as the client decodes them.
RECURSIVE FlattenFrames(_)
FlattenFrames(frames) ==
    IF Len(frames) = 0 THEN <<>>
    ELSE json_loads(Head(frames)) \o FlattenFrames(Tail(frames))

\* The messages pushed so far, in push order.
PushedSeq == [i \in 1..pushed |-> i]

Last(s) == s[Len(s)]

\* C1: every pushed message is in exactly one flushed batch or still queued,
\* and the batches in flush order followed by the queue are the pushed
\* messages in push order; a flush takes the whole queue, so a message pushed
\* after a flush is in the next one.
C1_ExactlyOnceInOrder ==
    /\ [](FlattenFrames(flushed) \o msg_queue = PushedSeq)
    /\ [][flushed' # flushed =>
            /\ Len(flushed') = Len(flushed) + 1
            /\ json_loads(Last(flushed')) = msg_queue
            /\ msg_queue' = <<>>]_vars

\* A batch has been flushed and a message pushed after it waits for the next.
C1_Witness == Len(flushed) >= 1 /\ Len(msg_queue) >= 1 /\ pushed = 2

\* The scenario of C2: auto-shutdown is on, one handler was opened and closed
\* once, no other handler was ever opened, and the application itself never
\* called stop_server.
OnlyConnectionClosed ==
    /\ auto_shutdown
    /\ hstate[1] = "closed"
    /\ \A c \in Conns \ {1} : hstate[c] = "new"
    /\ repeat_closes = 0
    /\ stop_calls = policy_stops

\* C2: in that scenario server.stop() has been invoked exactly once when the
\* timer has fired, and not at all while it is pending.
C2_StoppedExactlyOnce ==
    OnlyConnectionClosed => stop_calls = (IF Len(timers) = 0 THEN 1 ELSE 0)

\* The scenario has run to the end: the timer fired and stopped the server.
C2_Witness ==
    OnlyConnectionClosed /\ Len(timers) = 0 /\ stop_calls = 1 /\ listening = {}

\* C3: a terminate() coroutine that wakes after a connection was opened since
\* it was armed does not stop the server.
C3_TimerAfterOpenNeverStops ==
    [][(Len(timers) > 0 /\ Head(timers).saw_open /\ timers' = Tail(timers))
         => stop_calls' = stop_calls]_vars

\* C4: a flush delivers the batch to every registered handler whose own
\* write does not fail, whatever happens to the writes to the others.
C4_FailedWriteSparesOthers ==
    [][flushed' # flushed =>
         \A i \in 1..Len(connections) :
            hstate[connections[i]] = "open" =>
               received'[connections[i]] =
                  Append(received[connections[i]], Last(flushed'))]_vars

\* C5: no _message_loop task ever ends.
C5_LoopNeverTerminates == [][loops' >= loops]_vars

RECURSIVE IsSubseq(_, _)
IsSubseq(s, t) ==
    IF Len(s) = 0 THEN TRUE
    ELSE IF Len(t) = 0 THEN FALSE
    ELSE IF Head(s) = Head(t) THEN IsSubseq(Tail(s), Tail(t))
    ELSE IsSubseq(s, Tail(t))

StrictlyIncreasing(s) == \A i \in 1..(Len(s) - 1) : s[i] < s[i + 1]

\* C6: the frames written to a handler are flushed batches in flush order,
\* each at most once, and the messages they carry are in push order.
C6_PushOrderPerConnection ==
    \A c \in Conns :
        /\ IsSubseq(received[c], flushed)
        /\ StrictlyIncreasing(FlattenFrames(received[c]))

\* One handler has been written two messages.
C6_Witness == \E c \in Conns : Len(FlattenFrames(received[c])) >= 2

\* C7: while a message loop is alive, every queued message is eventually
\* flushed and is then held by every registered handler that can be written
\* to (the handlers registered after the flush step are those registered at
\* the flush), unless the event loop itself is stopped.
C7_EveryPushEventuallyDelivered ==
    \A m \in 1..MaxMsgs :
        (Contains(msg_queue, m) /\ loops > 0)
            ~> \/ io_loop_stopped
               \/ /\ Contains(FlattenFrames(flushed), m)
                  /\ \A i \in 1..Len(connections) :
                        hstate[connections[i]] = "open" =>
                           Contains(FlattenFrames(received[connections[i]]), m)

\* C8: no flushed or written frame is an empty array, no step taken from an
\* empty queue writes or flushes anything, and a send_message call that finds
\* the queue empty leaves it empty.
C8_EmptyFlushSendsNothing ==
    /\ [](/\ \A i \in 1..Len(flushed) : Len(json_loads(flushed[i])) > 0
          /\ \A c \in Conns : \A i \in 1..Len(received[c]) :
                Len(json_loads(received[c][i])) > 0)
    /\ [][/\ Len(msg_queue) = 0 => (received' = received /\ flushed' = flushed)
          /\ empty_sends' # empty_sends =>
                (Len(msg_queue') = 0 /\ received' = received)]_vars

\* send_message has run on an empty queue while a handler that could be
\* written to was registered, and that handler has been written nothing.
C8_Witness ==
    /\ empty_sends
    /\ pushed = 0
    /\ \E i \in 1..Len(connections) :
          hstate[connections[i]] = "open" /\ received[connections[i]] = <<>>

\* C9: is_connected() is true exactly when a handler that was opened and has
\* not been closed is in the connection list.
C9_ConnectedIffLiveHandler ==
    is_connected <=>
        \E c \in Conns : hstate[c] \in {"open", "gone"} /\ Contains(connections, c)

\* Two handlers were registered and one of them has closed: still connected.
C9_Witness ==
    /\ hstate[1] = "closed"
    /\ hstate[2] = "open"
    /\ connections = <<2>>
    /\ is_connected

\* C10: on_close on a handler that was closed before changes neither the
\* connection list nor the pending terminate() coroutines.
C10_RepeatedCloseIsNoOp ==
    [][repeat_closes' # repeat_closes =>
         (connections' = connections /\ timers' = timers)]_vars

\* C11: the connection list never holds the same handler twice.
C11_NoDuplicateRegistration ==
    \A i, j \in 1..Len(connections) :
        i # j => connections[i] # connections[j]

\* C13: with auto-shutdown off no terminate() coroutine is ever pending, the
\* shutdown policy never stops the server or the event loop, and a step that
\* closes a handler leaves the listening servers as they were.
C13_NoShutdownWhenDisabled ==
    /\ [](~auto_shutdown =>
            (Len(timers) = 0 /\ policy_stops = 0 /\ ~io_loop_stopped))
    /\ [][(~auto_shutdown /\
            \E c \in Conns : hstate[c] # "closed" /\ hstate'[c] = "closed")
           => (listening' = listening /\ stop_calls' = stop_calls)]_vars

\* Auto-shutdown is off, every handler has closed, the list is empty and the
\* server still listens.
C13_Witness ==
    /\ ~auto_shutdown
    /\ \A c \in Conns : hstate[c] = "closed"
    /\ Len(connections) = 0
    /\ listening # {}

\* C18: when terminate stops the server, the coroutine that does it is the
\* one armed by the most recent close: no coroutine armed later is pending.
\* (Runs with a repeated on_close are left aside.)
C18_StopOnlyAfterFullGracePeriod ==
    [][(policy_stops' > policy_stops /\ repeat_closes = 0)
         => Len(timers) = 1]_vars

\* C19: at most one terminate() coroutine is pending, and one is armed only
\* by a step that takes the connection list from non-empty to empty.
\* (Runs with a repeated on_close are left aside.)
C19_SingleTimer ==
    /\ [](repeat_closes = 0 => Len(timers) <= 1)
    /\ [][(repeat_closes' = 0 /\ Len(timers') > Len(timers)) =>
            (Len(connections) > 0 /\ Len(connections') = 0)]_vars

Count(frames, f) == Cardinality({i \in 1..Len(frames) : frames[i] = f})

\* C20: a flush makes one batch; every registered handler that can be
\* written to holds that batch exactly once afterwards, no handler holds it
\* twice, and handlers that are not registered are written nothing.
C20_OneBatchOncePerConnection ==
    [][flushed' # flushed =>
         /\ Len(flushed') = Len(flushed) + 1
         /\ \A c \in Conns :
               /\ Count(received'[c], Last(flushed')) <= 1
               /\ (Contains(connections, c) /\ hstate[c] = "open")
                     => Count(received'[c], Last(flushed')) = 1
               /\ ~Contains(connections, c) => received'[c] = received[c]]_vars


\* ---------------------------------------------------- inbound properties

\* A frame that is not a JSON object, or whose type is absent or unknown.
Malformed(f) == f.form # "object" \/ f.type \notin {"log", "event", "response"}

RouterStateUnchanged ==
    UNCHANGED <<elements, pending, resolved, listener_calls, logged, msg_queue>>

\* C12: a frame that does not parse, or has no type or an unknown one, is
\* dropped: no exception escapes on_message, the connection stays registered
\* and open, no handler is invoked, and the document state, the pending
\* table and the outbound queue are unchanged.
C12_MalformedFrameDropped ==
    [][\A c \in Conns, f \in Frames :
         (Malformed(f) /\ on_message(c, f)) =>
            /\ last_outcome' = "dropped"
            /\ hstate' = hstate
            /\ connections' = connections
            /\ RouterStateUnchanged]_vars

\* C14: an event frame whose target is in the tree invokes the listener of
\* that target exactly once and changes nothing else: the tree, the other
\* listeners, the pending table and the log are as before.
C14_EventInvokesListenerOnce ==
    [][\A c \in Conns, f \in Frames :
         (f.form = "object" /\ f.type = "event" /\ f.target \in elements
            /\ on_message(c, f)) =>
            /\ listener_calls' = [listener_calls EXCEPT ![f.target] = @ + 1]
            /\ UNCHANGED <<elements, pending, resolved, logged, msg_queue,
                           connections, hstate>>]_vars

\* Two events have reached the same element and its listener ran twice.
C14_Witness ==
    \E e \in Elements : e \in elements /\ listener_calls[e] = 2 /\ inbound = 2

\* C15: a response frame resolves the pending request with its id, with its
\* value, and removes that entry; the other pending requests stay pending,
\* and a request is resolved by one response only.
C15_ResponseResolvesItsRequest ==
    /\ [][\A c \in Conns, f \in Frames :
           (f.form = "object" /\ f.type = "response" /\ f.reqid \in pending
              /\ on_message(c, f)) =>
              /\ pending' = pending \ {f.reqid}
              /\ resolved' = resolved \cup {<<f.reqid, f.value>>}
              /\ UNCHANGED <<elements, listener_calls, logged>>]_vars
    /\ [](\A p, q \in resolved : p[1] = q[1] => p = q)
    /\ [](\A p \in resolved : p[1] \notin pending)

\* Two requests were pending together and the response to the second one
\* resolved the second one only.
C15_Witness == pending = {1} /\ resolved = {<<2, "b">>}

\* C16: an event for an element that has left the tree invokes no listener
\* and a response with no pending entry resolves nothing; neither raises,
\* the connection stays open and the document state is unchanged.
C16_StaleMessageIgnored ==
    [][\A c \in Conns, f \in Frames :
         (f.form = "object"
            /\ \/ f.type = "event" /\ f.target \notin elements
               \/ f.type = "response" /\ f.reqid \notin pending
            /\ on_message(c, f)) =>
            /\ last_outcome' # "raised"
            /\ hstate' = hstate
            /\ connections' = connections
            /\ RouterStateUnchanged]_vars

\* An event for a removed element went through the event handler and no
\* listener ran.
C16_Witness ==
    /\ inbound = 1
    /\ last_outcome = "event_handler"
    /\ elements # Elements
    /\ \A e \in Elements : listener_calls[e] = 0

\* C17: a log frame invokes the logging handler only: the connections, the
\* outbound queue, the tree and the pending table are unchanged and no
\* listener runs and no request is resolved.
C17_LogOnlyLogs ==
    [][\A c \in Conns, f \in Frames :
         (f.form = "object" /\ f.type = "log" /\ on_message(c, f)) =>
            /\ last_outcome' = "log_handler"
            /\ logged' = logged + 1
            /\ UNCHANGED <<connections, hstate, msg_queue, elements, pending,
                           resolved, listener_calls>>]_vars

\* A log frame arrived while a request was pending and was logged.
C17_Witness == last_outcome = "log_handler" /\ logged = 1 /\ pending # {}


\* ------------------------------------------------ failed writes and cycles

\* C21: a handler on which a write has raised during a broadcast is taken
\* out of the broadcasts: no later flush calls write_message on it.
C21_FailedConnectionNotWrittenAgain ==
    [][message_loop =>
         \A c \in write_failed :
            c \notin send_message(msg_queue, connections, received,
                                  hstate).failed]_vars


\* C22: a flush that finds no handler registered empties the queue and
\* writes to nobody; a handler is written to only in a flush step, only
\* while it is registered, and only the batch made from the queue of that
\* step, so what was flushed before it registered never reaches it.
C22_UnregisteredFlushIsLost ==
    /\ [][(message_loop /\ Len(connections) = 0 /\ Len(msg_queue) > 0) =>
            /\ msg_queue' = <<>>
            /\ received' = received
            /\ flushed' = Append(flushed, json_dumps(msg_queue))]_vars
    /\ [][\A c \in Conns :
            received'[c] # received[c] =>
               /\ message_loop
               /\ Contains(connections, c)
               /\ received'[c] = Append(received[c], json_dumps(msg_queue))]_vars

\* The first batch was flushed while nobody was registered; the handler that
\* registered afterwards holds the second batch only.
C22_Witness ==
    /\ Len(flushed) = 2
    /\ hstate[1] = "open"
    /\ \A c \in Conns \ {1} : hstate[c] = "new"
    /\ connections = <<1>>
    /\ received[1] = <<flushed[2]>>
    /\ msg_queue = <<>>


\* C23: no message is written twice to the same handler, and a flush whose
\* write raises has emptied the queue all the same, so the messages of a
\* batch that failed partway are not flushed again.
C23_AtMostOncePerConnection ==
    /\ [](\A c \in Conns : \A m \in 1..pushed :
             Count(FlattenFrames(received[c]), m) <= 1)
    /\ [][crashed' > crashed =>
            /\ msg_queue' = <<>>
            /\ flushed' = Append(flushed, json_dumps(msg_queue))]_vars

\* Two flushes each wrote to the first handler and then raised on the second
\* one: the first handler holds two batches, the second none.
C23_Witness ==
    /\ connections = <<1, 2>>
    /\ write_failed = {2}
    /\ crashed = 2
    /\ Len(received[1]) = 2
    /\ received[2] = <<>>


\* C24: every start_server adds a message loop and stop_server ends none;
\* while several loops are alive, each flush writes its batch once to every
\* registered handler that can be written to, and every handler holds its
\* messages in push order.
C24_ConcurrentLoopsExactlyOnce ==
    /\ [][app_server' # app_server => loops' = loops + 1]_vars
    /\ [][stop_calls' # stop_calls => loops' = loops]_vars
    /\ [][(loops >= 2 /\ flushed' # flushed) =>
            \A i \in 1..Len(connections) :
               hstate[connections[i]] = "open" =>
                  received'[connections[i]] =
                     Append(received[connections[i]], Last(flushed'))]_vars
    /\ [](\A c \in Conns : StrictlyIncreasing(FlattenFrames(received[c])))

====
